---- MODULE Spec2Model ----
(***************************************************************************)
(* Model of cleanup_forecast.py (YNAB Forecast Manager): the calendar      *)
(* stepper, the twice-a-month date generator, the projection loop, the     *)
(* signature delta and the delete / create phases of main().               *)
(***************************************************************************)
EXTENDS Integers, Sequences, FiniteSets, TLC

VARIABLES
    \* the external service (YNAB)
    server,                 \* the budget's scheduled transactions, in fetch order
    next_id,                \* the id the service gives the next created record
    faults,                 \* failures the service has answered with so far
    \* the process: one invocation of main() after the other
    today,                  \* date.today()
    run_no,                 \* invocations started so far
    prev_clean,             \* the previous invocation wrote and all its calls succeeded
    prev_delta,             \* what the previous invocation computed, for comparison
    environ,                \* os.environ: is YNAB_TOKEN set, is BUDGET_ID set
    pc,                     \* position in main()
    dry_run,                \* args.dry_run
    exit_code,              \* main()'s return value, -1 while running
    attempt,                \* api_call_with_retry's loop variable
    all_scheduled,          \* sched_response.data.scheduled_transactions
    k,                      \* index of the projection loop
    desired_forecasts,
    skipped_splits,
    existing_forecasts,
    to_delete,
    to_create,
    unchanged,
    di,                     \* index of the delete loop
    ci,                     \* index of the create loop
    deleted_forecast_count,
    created_count,
    \* what the service saw of this invocation
    last_call,              \* the last request sent and its answer
    pace,                   \* "called": a write went out and no sleep followed yet
    issued,                 \* the kinds of request sent in this invocation
    exhausted,              \* the call whose last retry still answered 429, or "none"
    trace,                  \* the requests sent and the sleeps taken, in order
    \* a call of the twice-a-month generator on its own
    gen_pc,                 \* "off", "call" or "returned"
    gen_in,                 \* its arguments <<start_date, horizon_date>>
    gen_out                 \* its return value

svcvars == <<server, next_id, faults>>
runvars == <<today, run_no, prev_clean, prev_delta, environ, pc, dry_run, exit_code, attempt,
             all_scheduled, k, desired_forecasts, skipped_splits,
             existing_forecasts, to_delete, to_create, unchanged, di, ci,
             deleted_forecast_count, created_count>>
obsvars == <<last_call, pace, issued, exhausted, trace>>
genvars == <<gen_pc, gen_in, gen_out>>
vars == <<svcvars, runvars, obsvars, genvars>>

\* Configuration (module constants of the script)
FORECAST_MONTHS == 2
max_retries == 3

(***************************************************************************)
(* datetime.date and dateutil.relativedelta.  A date is its day number,    *)
(* day 1 being January 1 of Year0 (proleptic Gregorian, as date does).     *)
(***************************************************************************)
Years == 2024..2031
Year0 == CHOOSE y \in Years : \A z \in Years : y <= z

IsLeap(y) == (y % 4 = 0) /\ ((y % 100 # 0) \/ (y % 400 = 0))

DaysInMonth(y, m) ==
    IF m = 2 THEN (IF IsLeap(y) THEN 29 ELSE 28)
    ELSE IF m \in {4, 6, 9, 11} THEN 30 ELSE 31

DaysInYear(y) == IF IsLeap(y) THEN 366 ELSE 365

RECURSIVE DaysBeforeYear(_)
DaysBeforeYear(y) ==
    IF y <= Year0 THEN 0 ELSE DaysBeforeYear(y - 1) + DaysInYear(y - 1)

RECURSIVE DaysBeforeMonth(_, _)
DaysBeforeMonth(y, m) ==
    IF m <= 1 THEN 0 ELSE DaysBeforeMonth(y, m - 1) + DaysInMonth(y, m - 1)

\* date(y, m, d)
MkDate(y, m, d) == DaysBeforeYear(y) + DaysBeforeMonth(y, m) + d

\* d.year, d.month, d.day
YearOf(n) ==
    CHOOSE y \in Years : DaysBeforeYear(y) < n /\ n <= DaysBeforeYear(y) + DaysInYear(y)

MonthOf(n) ==
    LET y == YearOf(n)
        r == n - DaysBeforeYear(y)
    IN  CHOOSE m \in 1..12 :
            DaysBeforeMonth(y, m) < r /\ r <= DaysBeforeMonth(y, m) + DaysInMonth(y, m)

DayOf(n) ==
    LET y == YearOf(n)
    IN  n - DaysBeforeYear(y) - DaysBeforeMonth(y, MonthOf(n))

\* str(d): the ISO form YYYY-MM-DD, as its three fields
DateStr(n) == <<YearOf(n), MonthOf(n), DayOf(n)>>

Min(a, b) == IF a <= b THEN a ELSE b

\* d.replace(day=x)
ReplaceDay(n, x) == MkDate(YearOf(n), MonthOf(n), x)

\* d + relativedelta(years=yy, months=mm, days=dd): the month arithmetic
\* first, the day clamped to the length of the target month, then the days
Delta(mm, dd) == [months |-> mm, days |-> dd]

AddDelta(n, step) ==
    LET total == (MonthOf(n) - 1) + step.months
        y     == YearOf(n) + (total \div 12)
        m     == (total % 12) + 1
        d     == Min(DayOf(n), DaysInMonth(y, m))
    IN  MkDate(y, m, d) + step.days

(***************************************************************************)
(* sorted(dates) on a list of dates                                        *)
(***************************************************************************)
RECURSIVE InsertSorted(_, _)
InsertSorted(x, s) ==
    IF s = <<>> THEN <<x>>
    ELSE IF x <= Head(s) THEN <<x>> \o s
    ELSE <<Head(s)>> \o InsertSorted(x, Tail(s))

RECURSIVE Sorted(_)
Sorted(s) == IF s = <<>> THEN <<>> ELSE InsertSorted(Head(s), Sorted(Tail(s)))

(***************************************************************************)
(* generate_twice_a_month_dates                                            *)
(***************************************************************************)
\* one pass of the while body for the month that starts at `current`
TwiceMonthBody(current, original_day, start_date, horizon_date) ==
    LET first_date  == ReplaceDay(current, Min(original_day, 28))
        second_day  == IF original_day <= 14 THEN original_day + 14
                       ELSE original_day - 14
        second_date == ReplaceDay(current, Min(second_day, 28))
        first  == IF first_date >= start_date /\ first_date <= horizon_date
                  THEN <<first_date>> ELSE <<>>
        second == IF /\ second_date >= start_date
                     /\ second_date <= horizon_date
                     /\ second_date # first_date
                  THEN <<second_date>> ELSE <<>>
    IN  first \o second

RECURSIVE TwiceLoop(_, _, _, _)
TwiceLoop(current, original_day, start_date, horizon_date) ==
    IF current <= horizon_date
    THEN TwiceMonthBody(current, original_day, start_date, horizon_date)
         \o TwiceLoop(AddDelta(current, Delta(1, 0)), original_day,
                      start_date, horizon_date)
    ELSE <<>>

\* faulty variant: the list returned as appended, without sorted()
generate_twice_a_month_dates_unsorted(start_date, horizon_date) ==
    TwiceLoop(MkDate(YearOf(start_date), MonthOf(start_date), 1),
              DayOf(start_date), start_date, horizon_date)

generate_twice_a_month_dates(start_date, horizon_date) ==
    Sorted(TwiceLoop(MkDate(YearOf(start_date), MonthOf(start_date), 1),
                     DayOf(start_date), start_date, horizon_date))

(***************************************************************************)
(* Text.  A string is the sequence of its pieces; " " is a blank, every    *)
(* other piece is a run of non-blank characters.  None is Python's None    *)
(* in a field that holds an optional string.                               *)
(***************************************************************************)
None == <<"<None>">>
FORECAST_PREFIX == <<"Forecast |">>
AUTO_GEN == <<"Forecast (Auto-Gen)">>

\* x or ""
OrEmpty(x) == IF x = None THEN <<>> ELSE x

\* sub in s
Contains(sub, s) ==
    \E i \in 1..(Len(s) - Len(sub) + 1) : SubSeq(s, i, i + Len(sub) - 1) = sub

\* s.startswith(p)
StartsWith(s, p) == Len(s) >= Len(p) /\ SubSeq(s, 1, Len(p)) = p

\* s.strip()
RECURSIVE LStrip(_)
LStrip(s) == IF s # <<>> /\ Head(s) = " " THEN LStrip(Tail(s)) ELSE s

RECURSIVE RStrip(_)
RStrip(s) ==
    IF s # <<>> /\ s[Len(s)] = " " THEN RStrip(SubSeq(s, 1, Len(s) - 1)) ELSE s

Strip(s) == RStrip(LStrip(s))

\* an optional string inside an f-string: None prints as the word None
FmtStr(x) == IF x = None THEN <<"None">> ELSE x

(***************************************************************************)
(* get_frequency_step                                                      *)
(***************************************************************************)
NoStep == [none |-> TRUE]

frequency_map ==
    [daily           |-> Delta(0, 1),
     weekly          |-> Delta(0, 7),
     everyOtherWeek  |-> Delta(0, 14),
     every4Weeks     |-> Delta(0, 28),
     monthly         |-> Delta(1, 0),
     everyOtherMonth |-> Delta(2, 0),
     every3Months    |-> Delta(3, 0),
     every4Months    |-> Delta(4, 0),
     twiceAYear      |-> Delta(6, 0),
     yearly          |-> Delta(12, 0),
     everyOtherYear  |-> Delta(24, 0)]

get_frequency_step(frequency) ==
    IF frequency \in DOMAIN frequency_map THEN frequency_map[frequency] ELSE NoStep

(***************************************************************************)
(* STEP 2 of main(): the desired forecasts of one scheduled transaction    *)
(***************************************************************************)
\* horizon_date = today + relativedelta(months=FORECAST_MONTHS)
HorizonOf(t) == AddDelta(t, Delta(FORECAST_MONTHS, 0))

\* the dict appended to desired_forecasts
Candidate(sched, dt, forecast_payee) ==
    [date        |-> dt,
     payee_name  |-> forecast_payee,
     amount      |-> sched.amount,
     account_id  |-> sched.account_id,
     category_id |-> sched.category_id,
     memo        |-> AUTO_GEN \o <<" ", "from", " ", sched.frequency>>,
     flag_color  |-> sched.flag_color]

\* faulty variant: the loop stops before a date that equals the horizon
RECURSIVE WalkDates_before_horizon(_, _, _)
WalkDates_before_horizon(curr_date, step, horizon_date) ==
    IF curr_date < horizon_date
    THEN <<curr_date>>
         \o WalkDates_before_horizon(AddDelta(curr_date, step), step, horizon_date)
    ELSE <<>>

\* the dates of the while loop: curr_date, curr_date + step, ... <= horizon
RECURSIVE WalkDates(_, _, _)
WalkDates(curr_date, step, horizon_date) ==
    IF curr_date <= horizon_date
    THEN <<curr_date>> \o WalkDates(AddDelta(curr_date, step), step, horizon_date)
    ELSE <<>>

\* has_splits
HasSplits(sched) == Len(sched.subtransactions) > 0

\* faulty variant: the memo is not looked at
SkippedBeforeFrequency_memo_unchecked(sched) ==
    \/ sched.deleted
    \/ sched.frequency = "never"
    \/ Contains(FORECAST_PREFIX, OrEmpty(sched.payee_name))
    \/ HasSplits(sched)

\* the filters of the loop body: TRUE when a `continue` is reached before
\* the frequency is looked at
SkippedBeforeFrequency(sched) ==
    \/ sched.deleted
    \/ sched.frequency = "never"
    \/ Contains(FORECAST_PREFIX, OrEmpty(sched.payee_name))
    \/ HasSplits(sched)
    \/ Strip(OrEmpty(sched.memo)) = <<>>

\* the dates one scheduled transaction contributes
ForecastDates(sched, horizon_date) ==
    IF SkippedBeforeFrequency(sched) THEN <<>>
    ELSE IF sched.frequency = "twiceAMonth"
    THEN generate_twice_a_month_dates(AddDelta(sched.date_next, Delta(0, 1)),
                                      horizon_date)
    ELSE LET step == get_frequency_step(sched.frequency)
         IN  IF step = NoStep THEN <<>>
             ELSE WalkDates(AddDelta(sched.date_next, step), step, horizon_date)

\* what one pass of the loop appends to desired_forecasts
ForecastsOf(sched, horizon_date) ==
    LET dates == ForecastDates(sched, horizon_date)
        forecast_payee == FORECAST_PREFIX \o <<" ">> \o OrEmpty(sched.memo)
    IN  [i \in 1..Len(dates) |-> Candidate(sched, dates[i], forecast_payee)]

\* faulty variant: the split check comes before the deleted check
CountsAsSplit_before_deleted(sched) ==
    /\ sched.frequency # "never"
    /\ ~Contains(FORECAST_PREFIX, OrEmpty(sched.payee_name))
    /\ HasSplits(sched)

\* whether one pass of the loop counts a skipped split
CountsAsSplit(sched) ==
    /\ ~sched.deleted
    /\ sched.frequency # "never"
    /\ ~Contains(FORECAST_PREFIX, OrEmpty(sched.payee_name))
    /\ HasSplits(sched)

(***************************************************************************)
(* STEP 3 and STEP 4 of main(): existing forecasts and the delta           *)
(***************************************************************************)
\* is_forecast
IsForecast(sched) ==
    \/ Contains(FORECAST_PREFIX, OrEmpty(sched.payee_name))
    \/ StartsWith(OrEmpty(sched.memo), AUTO_GEN)

\* faulty variant: the frequency of the record is not looked at
ExistingForecasts_any_frequency(scheduled) ==
    LET Keep(sched) == ~sched.deleted /\ IsForecast(sched)
    IN  SelectSeq(scheduled, Keep)

ExistingForecasts(scheduled) ==
    LET Keep(sched) == ~sched.deleted /\ IsForecast(sched) /\ sched.frequency = "never"
    IN  SelectSeq(scheduled, Keep)

\* f"{dt}|{payee}|{amount}"
make_signature(dt, payee, amount) == <<DateStr(dt), FmtStr(payee), amount>>

DesiredSig(d) == make_signature(d.date, d.payee_name, d.amount)
ExistingSig(e) == make_signature(e.date_next, e.payee_name, e.amount)

\* A dict is the sequence of its items in insertion order.  d[key] = val
\* keeps the place of a key already present and replaces its value.
HasKey(d, key) == \E i \in 1..Len(d) : d[i].key = key

DictPut(d, key, val) ==
    IF HasKey(d, key)
    THEN [i \in 1..Len(d) |-> IF d[i].key = key THEN [key |-> key, val |-> val]
                                                 ELSE d[i]]
    ELSE Append(d, [key |-> key, val |-> val])

\* the dict comprehension {key: val for ...} over a list of (key, val)
RECURSIVE DictBuild(_, _)
DictBuild(d, items) ==
    IF items = <<>> THEN d
    ELSE DictBuild(DictPut(d, Head(items).key, Head(items).val), Tail(items))

desired_sigs(desired) ==
    DictBuild(<<>>, [i \in 1..Len(desired) |->
                        [key |-> DesiredSig(desired[i]), val |-> desired[i]]])

existing_sigs(existing) ==
    DictBuild(<<>>, [i \in 1..Len(existing) |->
                        [key |-> ExistingSig(existing[i]), val |-> existing[i]]])

DictValues(d) == [i \in 1..Len(d) |-> d[i].val]

\* to_delete = [existing_sigs[sig] for sig in existing_sigs if sig not in desired_sigs]
ToDelete(existing, desired) ==
    LET dsig == desired_sigs(desired)
        Keep(item) == ~HasKey(dsig, item.key)
    IN  DictValues(SelectSeq(existing_sigs(existing), Keep))

\* faulty variant: every desired forecast not matched is created, the
\* list is not keyed by signature
ToCreate_every_item(desired, existing) ==
    LET esig == existing_sigs(existing)
        Keep(d) == ~HasKey(esig, DesiredSig(d))
    IN  SelectSeq(desired, Keep)

\* to_create = [desired_sigs[sig] for sig in desired_sigs if sig not in existing_sigs]
ToCreate(desired, existing) ==
    LET esig == existing_sigs(existing)
        Keep(item) == ~HasKey(esig, item.key)
    IN  DictValues(SelectSeq(desired_sigs(desired), Keep))

(***************************************************************************)
(* The service.  A scheduled transaction is a record; the service keeps    *)
(* a deleted one with its deleted flag set.                                *)
(***************************************************************************)
NoneId == "None"

\* faulty variant: the category of the template is sent for inflows too
SaveScheduledTransaction_category_kept(item) ==
    [account_id  |-> item.account_id,
     date        |-> item.date,
     amount      |-> item.amount,
     payee_name  |-> item.payee_name,
     category_id |-> item.category_id,
     memo        |-> item.memo,
     frequency   |-> "never",
     flag_color  |-> item.flag_color]

\* faulty variant: the record is created as a monthly one
SaveScheduledTransaction_recurring(item) ==
    [account_id  |-> item.account_id,
     date        |-> item.date,
     amount      |-> item.amount,
     payee_name  |-> item.payee_name,
     category_id |-> IF item.amount > 0 THEN NoneId ELSE item.category_id,
     memo        |-> item.memo,
     frequency   |-> "monthly",
     flag_color  |-> item.flag_color]

\* SaveScheduledTransaction(...) built from one item of to_create
SaveScheduledTransaction(item) ==
    [account_id  |-> item.account_id,
     date        |-> item.date,
     amount      |-> item.amount,
     payee_name  |-> item.payee_name,
     category_id |-> IF item.amount > 0 THEN NoneId ELSE item.category_id,
     memo        |-> item.memo,
     frequency   |-> "never",
     flag_color  |-> item.flag_color]

\* the record the service stores for a create request
Stored(id, body) ==
    [id             |-> id,
     deleted        |-> FALSE,
     frequency      |-> body.frequency,
     payee_name     |-> body.payee_name,
     memo           |-> body.memo,
     amount         |-> body.amount,
     date_next      |-> body.date,
     account_id     |-> body.account_id,
     category_id    |-> body.category_id,
     flag_color     |-> body.flag_color,
     subtransactions |-> <<>>]

\* the service's list after a delete request for `id`
AfterDelete(records, id) ==
    [i \in 1..Len(records) |->
        IF records[i].id = id THEN [records[i] EXCEPT !.deleted = TRUE]
        ELSE records[i]]

Outcomes == {"ok", "429", "error"}

(***************************************************************************)
(* The budgets the runs start from: up to MaxRecords scheduled             *)
(* transactions out of a pool that holds every kind the script tells       *)
(* apart, dated so that each template yields one or two forecasts.         *)
(***************************************************************************)
MaxRecords == 3     \* scheduled transactions in the budget at the start
MaxRuns == 2        \* invocations of main()
MaxFaults == 3      \* failures the service answers with, over all runs

RunDay == MkDate(2026, 1, 10)
H0 == HorizonOf(RunDay)

Sched(id, frequency, payee_name, memo, amount, date_next) ==
    [id             |-> id,
     deleted        |-> FALSE,
     frequency      |-> frequency,
     payee_name     |-> payee_name,
     memo           |-> memo,
     amount         |-> amount,
     date_next      |-> date_next,
     account_id     |-> "acct",
     category_id    |-> "cat1",
     flag_color     |-> NoneId,
     subtransactions |-> <<>>]

RentForecastPayee == FORECAST_PREFIX \o <<" ", "Rent">>
AutoMemo == AUTO_GEN \o <<" ", "from", " ", "weekly">>

Pool ==
    << \* recurring templates
       Sched(1, "weekly", <<"Landlord">>, <<"Rent">>, -5, H0 - 8),
       [Sched(2, "weekly", <<"Agency">>, <<"Rent">>, -5, H0 - 8)
            EXCEPT !.category_id = "cat2", !.flag_color = "red"],
       Sched(3, "twiceAMonth", <<"Gym">>, <<"Gym">>, 0, MkDate(2026, 2, 20)),
       Sched(4, "monthly", <<"Employer">>, <<"Pay">>, 9, MkDate(2026, 2, 5)),
       \* records the projection skips
       [Sched(5, "weekly", <<"Shop">>, <<"Split">>, -5, H0 - 8)
            EXCEPT !.subtransactions = <<-2, -3>>],
       [Sched(6, "weekly", None, <<" ">>, -2, H0 - 8)
            EXCEPT !.subtransactions = <<-1, -1>>],
       [Sched(7, "never", <<"Dentist">>, <<"Checkup">>, -6, H0 - 8)
            EXCEPT !.subtransactions = <<-6>>],
       [Sched(8, "weekly", RentForecastPayee, <<"Rent">>, -5, H0 - 15)
            EXCEPT !.subtransactions = <<-1, -4>>],
       \* forecasts materialized earlier
       Sched(9, "never", RentForecastPayee, AutoMemo, -5, H0 - 1),
       Sched(10, "never", RentForecastPayee, AutoMemo, -5, H0 - 15),
       [Sched(11, "never", RentForecastPayee, <<"edited">>, -5, H0 - 15)
            EXCEPT !.category_id = "cat2"],
       Sched(12, "never", None, AutoMemo, -2, H0 - 15),
       \* a split template deleted in the budget
       [Sched(13, "weekly", <<"Club">>, <<"Dues">>, -4, H0 - 8)
            EXCEPT !.subtransactions = <<-4>>, !.deleted = TRUE] >>

\* the records of the pool with index in S, in pool order
RECURSIVE PoolSeq(_, _)
PoolSeq(S, i) ==
    IF i > Len(Pool) THEN <<>>
    ELSE (IF i \in S THEN <<Pool[i]>> ELSE <<>>) \o PoolSeq(S, i + 1)

NoCall == [op |-> "none"]

\* an entry of the trace: a request with the service's answer, or a sleep
Call(op, item, attempt_no, outcome) ==
    [ev |-> "call", op |-> op, item |-> item, attempt |-> attempt_no,
     outcome |-> outcome]

Sleep(seconds) ==
    [ev |-> "sleep", op |-> seconds, item |-> 0, attempt |-> 0,
     outcome |-> "none"]

\* what follows one attempt: api_call_with_retry sleeps before it loops,
\* the write loops sleep after a call that returned
SleepAfter(op, verdict) ==
    IF verdict = "retry" THEN << Sleep("RATE_LIMIT_RETRY_SECONDS") >>
    ELSE IF verdict = "return" /\ op # "fetch"
         THEN << Sleep("API_DELAY_SECONDS") >>
    ELSE <<>>

\* nothing to compare with: no invocation before, or one that wrote
NoDelta ==
    [dry |-> FALSE, all_scheduled |-> <<>>, desired_forecasts |-> <<>>,
     to_delete |-> <<>>, to_create |-> <<>>]

\* the local variables of main() before its first statement
RunReset ==
    /\ attempt' = 0
    /\ all_scheduled' = <<>>
    /\ k' = 1
    /\ desired_forecasts' = <<>>
    /\ skipped_splits' = 0
    /\ existing_forecasts' = <<>>
    /\ to_delete' = <<>>
    /\ to_create' = <<>>
    /\ unchanged' = 0
    /\ di' = 1
    /\ ci' = 1
    /\ deleted_forecast_count' = 0
    /\ created_count' = 0
    /\ last_call' = NoCall
    /\ pace' = "start"
    /\ issued' = {}
    /\ exhausted' = "none"
    /\ trace' = <<>>

InitMain ==
    /\ \E S \in SUBSET (1..Len(Pool)) :
          /\ Cardinality(S) <= MaxRecords
          /\ server = PoolSeq(S, 1)
    /\ next_id = Len(Pool) + 1
    /\ faults = 0
    /\ today = RunDay
    /\ run_no = 0
    /\ prev_clean = FALSE
    /\ prev_delta = NoDelta
    /\ environ = [YNAB_TOKEN |-> TRUE, BUDGET_ID |-> TRUE]
    /\ pc = "idle"
    /\ dry_run = FALSE
    /\ exit_code = -1
    /\ attempt = 0
    /\ all_scheduled = <<>>
    /\ k = 1
    /\ desired_forecasts = <<>>
    /\ skipped_splits = 0
    /\ existing_forecasts = <<>>
    /\ to_delete = <<>>
    /\ to_create = <<>>
    /\ unchanged = 0
    /\ di = 1
    /\ ci = 1
    /\ deleted_forecast_count = 0
    /\ created_count = 0
    /\ last_call = NoCall
    /\ pace = "start"
    /\ issued = {}
    /\ exhausted = "none"
    /\ trace = <<>>

Init ==
    /\ InitMain
    /\ gen_pc = "off"
    /\ gen_in = <<>>
    /\ gen_out = <<>>

(***************************************************************************)
(* main()                                                                  *)
(***************************************************************************)
\* the invocation that ended wrote to the service and every item of its
\* two lists went through
RunWasClean ==
    /\ pc = "done"
    /\ exit_code = 0
    /\ ~dry_run
    /\ "fetch" \in issued
    /\ deleted_forecast_count = Len(to_delete)
    /\ created_count = Len(to_create)

\* the lists of the invocation that ended, kept when it was a dry run that
\* reached its summary
DeltaOfRun ==
    IF pc = "done" /\ exit_code = 0 /\ dry_run
    THEN [dry |-> TRUE, all_scheduled |-> all_scheduled,
          desired_forecasts |-> desired_forecasts,
          to_delete |-> to_delete, to_create |-> to_create]
    ELSE NoDelta

\* faulty variant: BUDGET_ID is not looked at
ConfigOk_token_only(token, budget_id) == token

\* `if not token: return 1`, `if not budget_id: return 1`
ConfigOk(token, budget_id) == token /\ budget_id

\* argument parsing, the environment, the counters
StartRun(dry, token, budget_id) ==
    /\ pc \in {"idle", "done"}
    /\ run_no < MaxRuns
    /\ run_no' = run_no + 1
    /\ prev_clean' = RunWasClean
    /\ prev_delta' = DeltaOfRun
    /\ environ' = [YNAB_TOKEN |-> token, BUDGET_ID |-> budget_id]
    /\ dry_run' = dry
    /\ RunReset
    /\ exit_code' = (IF ConfigOk(token, budget_id) THEN -1 ELSE 1)
    /\ pc' = (IF ConfigOk(token, budget_id) THEN "fetch" ELSE "done")
    /\ UNCHANGED <<svcvars, today, genvars>>

\* faulty variant: every 429 is retried, the last attempt included
RetryVerdict_every_429(outcome, attempt_no) ==
    IF outcome = "ok" THEN "return"
    ELSE IF outcome = "429" THEN "retry"
    ELSE "raise"

\* api_call_with_retry around one attempt that the service answers with
\* `outcome`: "retry" when it sleeps and loops, "raise" when the exception
\* reaches the caller, "return" when the call returns
RetryVerdict(outcome, attempt_no) ==
    IF outcome = "ok" THEN "return"
    ELSE IF outcome = "429" /\ attempt_no < max_retries - 1 THEN "retry"
    ELSE "raise"

\* the service answers a failure only while its budget of failures lasts
MayAnswer(outcome) == outcome = "ok" \/ faults < MaxFaults

FaultsAfter(outcome) == IF outcome = "ok" THEN faults ELSE faults + 1

ExhaustedAfter(op, outcome) ==
    IF outcome = "429" /\ RetryVerdict(outcome, attempt) = "raise" THEN op
    ELSE exhausted

\* STEP 1: one attempt of the fetch
FetchAttempt(outcome) ==
    /\ pc = "fetch"
    /\ MayAnswer(outcome)
    /\ faults' = FaultsAfter(outcome)
    /\ last_call' = [op |-> "fetch", outcome |-> outcome, attempt |-> attempt]
    /\ issued' = issued \cup {"fetch"}
    /\ exhausted' = ExhaustedAfter("fetch", outcome)
    /\ trace' = trace \o << Call("fetch", 0, attempt, outcome) >>
                      \o SleepAfter("fetch", RetryVerdict(outcome, attempt))
    /\ LET verdict == RetryVerdict(outcome, attempt)
       IN  /\ attempt' = (IF verdict = "retry" THEN attempt + 1 ELSE 0)
           /\ all_scheduled' = (IF verdict = "return" THEN server ELSE all_scheduled)
           /\ pc' = (IF verdict = "return" THEN "project"
                     ELSE IF verdict = "retry" THEN "fetch" ELSE "done")
           /\ exit_code' = (IF verdict = "raise" THEN 1 ELSE exit_code)
    /\ UNCHANGED <<server, next_id, today, run_no, prev_clean, prev_delta, environ, dry_run, k,
                   desired_forecasts, skipped_splits, existing_forecasts,
                   to_delete, to_create, unchanged, di, ci,
                   deleted_forecast_count, created_count, pace, genvars>>

\* STEP 2: one pass of `for sched in all_scheduled`
ProjectStep ==
    /\ pc = "project"
    /\ k <= Len(all_scheduled)
    /\ desired_forecasts' =
          desired_forecasts \o ForecastsOf(all_scheduled[k], HorizonOf(today))
    /\ skipped_splits' =
          skipped_splits + (IF CountsAsSplit(all_scheduled[k]) THEN 1 ELSE 0)
    /\ k' = k + 1
    /\ UNCHANGED <<svcvars, today, run_no, prev_clean, prev_delta, environ, pc, dry_run, exit_code,
                   attempt, all_scheduled, existing_forecasts, to_delete,
                   to_create, unchanged, di, ci, deleted_forecast_count,
                   created_count, obsvars, genvars>>

\* STEP 3 and STEP 4: the existing forecasts and the delta
Reconcile ==
    /\ pc = "project"
    /\ k > Len(all_scheduled)
    /\ existing_forecasts' = ExistingForecasts(all_scheduled)
    /\ to_delete' = ToDelete(ExistingForecasts(all_scheduled), desired_forecasts)
    /\ to_create' = ToCreate(desired_forecasts, ExistingForecasts(all_scheduled))
    /\ unchanged' = Len(desired_forecasts)
                    - Len(ToCreate(desired_forecasts, ExistingForecasts(all_scheduled)))
    /\ pc' = "delete"
    /\ di' = 1
    /\ UNCHANGED <<svcvars, today, run_no, prev_clean, prev_delta, environ, dry_run, exit_code,
                   attempt, all_scheduled, k, desired_forecasts, skipped_splits,
                   ci, deleted_forecast_count, created_count, obsvars, genvars>>

\* faulty variant: the delete request goes out in a dry run as well
DeleteDryRun_sends ==
    /\ pc = "delete"
    /\ di <= Len(to_delete)
    /\ dry_run
    /\ di' = di + 1
    /\ server' = AfterDelete(server, to_delete[di].id)
    /\ trace' = trace \o << Call("delete", di, 0, "ok") >>
    /\ UNCHANGED <<next_id, faults, today, run_no, prev_clean, prev_delta, environ,
                   pc, dry_run, exit_code, attempt, all_scheduled, k,
                   desired_forecasts, skipped_splits, existing_forecasts,
                   to_delete, to_create, unchanged, ci, deleted_forecast_count,
                   created_count, last_call, pace, issued, exhausted, genvars>>

\* STEP 5, dry run: the item is only printed
DeleteDryRun ==
    /\ pc = "delete"
    /\ di <= Len(to_delete)
    /\ dry_run
    /\ di' = di + 1
    /\ UNCHANGED <<svcvars, today, run_no, prev_clean, prev_delta, environ, pc, dry_run, exit_code,
                   attempt, all_scheduled, k, desired_forecasts, skipped_splits,
                   existing_forecasts, to_delete, to_create, unchanged, ci,
                   deleted_forecast_count, created_count, obsvars, genvars>>

\* STEP 5: one attempt of delete_scheduled_transaction for to_delete[di]
DeleteAttempt(outcome) ==
    /\ pc = "delete"
    /\ di <= Len(to_delete)
    /\ ~dry_run
    /\ MayAnswer(outcome)
    /\ faults' = FaultsAfter(outcome)
    /\ last_call' = [op |-> "delete", id |-> to_delete[di].id,
                     outcome |-> outcome, attempt |-> attempt]
    /\ issued' = issued \cup {"delete"}
    /\ exhausted' = ExhaustedAfter("delete", outcome)
    /\ trace' = trace \o << Call("delete", di, attempt, outcome) >>
                      \o SleepAfter("delete", RetryVerdict(outcome, attempt))
    /\ server' = (IF outcome = "ok" THEN AfterDelete(server, to_delete[di].id)
                  ELSE server)
    /\ LET verdict == RetryVerdict(outcome, attempt)
       IN  /\ attempt' = (IF verdict = "retry" THEN attempt + 1 ELSE 0)
           /\ di' = (IF verdict = "retry" THEN di ELSE di + 1)
           /\ deleted_forecast_count' =
                 deleted_forecast_count + (IF verdict = "return" THEN 1 ELSE 0)
           \* time.sleep follows a success and a retried 429, not an exception
           /\ pace' = (IF verdict = "raise" THEN "called" ELSE "waited")
    /\ UNCHANGED <<next_id, today, run_no, prev_clean, prev_delta, environ, pc, dry_run, exit_code,
                   all_scheduled, k, desired_forecasts, skipped_splits,
                   existing_forecasts, to_delete, to_create, unchanged, ci,
                   created_count, genvars>>

\* the delete loop is over
DeleteDone ==
    /\ pc = "delete"
    /\ di > Len(to_delete)
    /\ pc' = "create"
    /\ ci' = 1
    /\ UNCHANGED <<svcvars, today, run_no, prev_clean, prev_delta, environ, dry_run, exit_code,
                   attempt, all_scheduled, k, desired_forecasts, skipped_splits,
                   existing_forecasts, to_delete, to_create, unchanged, di,
                   deleted_forecast_count, created_count, obsvars, genvars>>

\* STEP 6, dry run
CreateDryRun ==
    /\ pc = "create"
    /\ ci <= Len(to_create)
    /\ dry_run
    /\ ci' = ci + 1
    /\ UNCHANGED <<svcvars, today, run_no, prev_clean, prev_delta, environ, pc, dry_run, exit_code,
                   attempt, all_scheduled, k, desired_forecasts, skipped_splits,
                   existing_forecasts, to_delete, to_create, unchanged, di,
                   deleted_forecast_count, created_count, obsvars, genvars>>

\* faulty variant: the create loop is left on any exception
StopsCreates_any_error(verdict, outcome) == verdict = "raise"

\* except ApiException in the create loop: if e.status == 429: break
StopsCreates(verdict, outcome) == verdict = "raise" /\ outcome = "429"

\* STEP 6: one attempt of create_scheduled_transaction for to_create[ci]
CreateAttempt(outcome) ==
    /\ pc = "create"
    /\ ci <= Len(to_create)
    /\ ~dry_run
    /\ MayAnswer(outcome)
    /\ faults' = FaultsAfter(outcome)
    /\ last_call' = [op |-> "create", body |-> SaveScheduledTransaction(to_create[ci]),
                     outcome |-> outcome, attempt |-> attempt]
    /\ issued' = issued \cup {"create"}
    /\ exhausted' = ExhaustedAfter("create", outcome)
    /\ trace' = trace \o << Call("create", ci, attempt, outcome) >>
                      \o SleepAfter("create", RetryVerdict(outcome, attempt))
    /\ server' = (IF outcome = "ok"
                  THEN Append(server,
                              Stored(next_id, SaveScheduledTransaction(to_create[ci])))
                  ELSE server)
    /\ next_id' = (IF outcome = "ok" THEN next_id + 1 ELSE next_id)
    /\ LET verdict == RetryVerdict(outcome, attempt)
           stop == StopsCreates(verdict, outcome)
       IN  /\ attempt' = (IF verdict = "retry" THEN attempt + 1 ELSE 0)
           /\ ci' = (IF verdict = "retry" \/ stop THEN ci ELSE ci + 1)
           /\ created_count' = created_count + (IF verdict = "return" THEN 1 ELSE 0)
           /\ pace' = (IF verdict = "raise" THEN "called" ELSE "waited")
           /\ pc' = (IF stop THEN "done" ELSE pc)
           /\ exit_code' = (IF stop THEN 0 ELSE exit_code)
    /\ UNCHANGED <<today, run_no, prev_clean, prev_delta, environ, dry_run, all_scheduled, k,
                   desired_forecasts, skipped_splits, existing_forecasts,
                   to_delete, to_create, unchanged, di, deleted_forecast_count,
                   genvars>>

\* the create loop is over: the summary, return 0
CreateDone ==
    /\ pc = "create"
    /\ ci > Len(to_create)
    /\ pc' = "done"
    /\ exit_code' = 0
    /\ UNCHANGED <<svcvars, today, run_no, prev_clean, prev_delta, environ, dry_run, attempt,
                   all_scheduled, k, desired_forecasts, skipped_splits,
                   existing_forecasts, to_delete, to_create, unchanged, di, ci,
                   deleted_forecast_count, created_count, obsvars, genvars>>

Next ==
    \/ \E dry \in BOOLEAN, token \in BOOLEAN, budget_id \in BOOLEAN :
          StartRun(dry, token, budget_id)
    \/ \E outcome \in Outcomes : FetchAttempt(outcome)
    \/ ProjectStep
    \/ Reconcile
    \/ DeleteDryRun
    \/ \E outcome \in Outcomes : DeleteAttempt(outcome)
    \/ DeleteDone
    \/ CreateDryRun
    \/ \E outcome \in Outcomes : CreateAttempt(outcome)
    \/ CreateDone

Spec == Init /\ [][Next]_vars

\* one invocation of main() from every budget
NextRun ==
    \/ \E dry \in BOOLEAN, token \in BOOLEAN, budget_id \in BOOLEAN :
          run_no = 0 /\ StartRun(dry, token, budget_id)
    \/ \E outcome \in Outcomes : FetchAttempt(outcome)
    \/ ProjectStep
    \/ Reconcile
    \/ DeleteDryRun
    \/ \E outcome \in Outcomes : DeleteAttempt(outcome)
    \/ DeleteDone
    \/ CreateDryRun
    \/ \E outcome \in Outcomes : CreateAttempt(outcome)
    \/ CreateDone

SpecRun == Init /\ [][NextRun]_vars

\* invocation after invocation against a service that answers every
\* request
NextRerun ==
    \/ \E dry \in BOOLEAN, token \in BOOLEAN, budget_id \in BOOLEAN :
          StartRun(dry, token, budget_id)
    \/ FetchAttempt("ok")
    \/ ProjectStep
    \/ Reconcile
    \/ DeleteDryRun
    \/ DeleteAttempt("ok")
    \/ DeleteDone
    \/ CreateDryRun
    \/ CreateAttempt("ok")
    \/ CreateDone

SpecRerun == Init /\ [][NextRerun]_vars

(***************************************************************************)
(* The twice-a-month generator on its own: every start date and horizon    *)
(* of a window of days.                                                    *)
(***************************************************************************)
GenStartDays == 91      \* start_date ranges over this many days
GenHorizonDays == 135   \* horizon_date ranges over this many days

GenFirstDay == MkDate(2024, 1, 1)
GenStarts == GenFirstDay..(GenFirstDay + GenStartDays - 1)
GenHorizons == GenFirstDay..(GenFirstDay + GenHorizonDays - 1)

\* no invocation of main() takes place
MainOff ==
    /\ server = <<>>
    /\ next_id = 1
    /\ faults = 0
    /\ today = RunDay
    /\ run_no = 0
    /\ prev_clean = FALSE
    /\ prev_delta = NoDelta
    /\ environ = [YNAB_TOKEN |-> TRUE, BUDGET_ID |-> TRUE]
    /\ pc = "off"
    /\ dry_run = FALSE
    /\ exit_code = -1
    /\ attempt = 0
    /\ all_scheduled = <<>>
    /\ k = 1
    /\ desired_forecasts = <<>>
    /\ skipped_splits = 0
    /\ existing_forecasts = <<>>
    /\ to_delete = <<>>
    /\ to_create = <<>>
    /\ unchanged = 0
    /\ di = 1
    /\ ci = 1
    /\ deleted_forecast_count = 0
    /\ created_count = 0
    /\ last_call = NoCall
    /\ pace = "start"
    /\ issued = {}
    /\ exhausted = "none"
    /\ trace = <<>>

InitGen ==
    /\ MainOff
    /\ gen_pc = "call"
    /\ gen_in \in GenStarts \X GenHorizons
    /\ gen_out = <<>>

CallGenerate ==
    /\ gen_pc = "call"
    /\ gen_pc' = "returned"
    /\ gen_out' = generate_twice_a_month_dates(gen_in[1], gen_in[2])
    /\ UNCHANGED <<gen_in, svcvars, runvars, obsvars>>

NextGen == CallGenerate

SpecGen == InitGen /\ [][NextGen]_vars

(***************************************************************************)
(* The projection of one template on its own: every frequency, and every   *)
(* next-occurrence date of a window that ends after the horizon.           *)
(***************************************************************************)
ProjBackDays == 35   \* the window starts this many days (times the unit of
                     \* the frequency) before today

Frequencies ==
    DOMAIN frequency_map \cup {"twiceAMonth", "never", "quarterly"}

\* how far back next-occurrence dates go: far enough for a step of the
\* frequency to land inside the horizon
Lookback(frequency) ==
    IF frequency \in {"yearly", "everyOtherYear"} THEN 20 * ProjBackDays
    ELSE IF frequency \in {"monthly", "everyOtherMonth", "every3Months",
                           "every4Months", "twiceAYear"} THEN 6 * ProjBackDays
    ELSE ProjBackDays

ProjDays == {MkDate(2026, 1, 10), MkDate(2025, 12, 31), MkDate(2026, 1, 29)}

\* the ways a template is kept out of the projection, and "plain"
Variants == {"plain", "deleted", "marked", "split", "memo_none", "memo_empty",
             "memo_blank"}

Template(variant, frequency, date_next) ==
    LET t == Sched(1, frequency, <<"Landlord">>, <<"Rent">>, -5, date_next)
    IN  IF variant = "deleted" THEN [t EXCEPT !.deleted = TRUE]
        ELSE IF variant = "marked"
             THEN [t EXCEPT !.payee_name = <<"x">> \o FORECAST_PREFIX \o <<" ", "Rent">>]
        ELSE IF variant = "split" THEN [t EXCEPT !.subtransactions = <<-5>>]
        ELSE IF variant = "memo_none" THEN [t EXCEPT !.memo = None]
        ELSE IF variant = "memo_empty" THEN [t EXCEPT !.memo = <<>>]
        ELSE IF variant = "memo_blank" THEN [t EXCEPT !.memo = <<" ", " ">>]
        ELSE t

InitProject ==
    /\ today \in ProjDays
    /\ \E v \in Variants : \E f \in Frequencies :
       \E dn \in (today - Lookback(f))..(HorizonOf(today) + 2) :
          all_scheduled = << Template(v, f, dn) >>
    /\ server = all_scheduled
    /\ next_id = 2
    /\ faults = 0
    /\ run_no = 1
    /\ prev_clean = FALSE
    /\ prev_delta = NoDelta
    /\ environ = [YNAB_TOKEN |-> TRUE, BUDGET_ID |-> TRUE]
    /\ pc = "project"
    /\ dry_run = TRUE
    /\ exit_code = -1
    /\ attempt = 0
    /\ k = 1
    /\ desired_forecasts = <<>>
    /\ skipped_splits = 0
    /\ existing_forecasts = <<>>
    /\ to_delete = <<>>
    /\ to_create = <<>>
    /\ unchanged = 0
    /\ di = 1
    /\ ci = 1
    /\ deleted_forecast_count = 0
    /\ created_count = 0
    /\ last_call = [op |-> "fetch", outcome |-> "ok", attempt |-> 0]
    /\ pace = "start"
    /\ issued = {"fetch"}
    /\ exhausted = "none"
    /\ trace = << Call("fetch", 0, 0, "ok") >>
    /\ gen_pc = "off"
    /\ gen_in = <<>>
    /\ gen_out = <<>>

NextProject == ProjectStep

SpecProject == InitProject /\ [][NextProject]_vars

(***************************************************************************)
(* Properties                                                              *)
(***************************************************************************)
SeqToSet(s) == {s[i] : i \in 1..Len(s)}

\* C8: generate_twice_a_month_dates(start_date, horizon) returns a strictly
\* ascending sequence of dates without duplicates, each with
\* start_date <= date <= horizon, and the empty sequence when
\* start_date > horizon.
C8_GenOrderedInRange ==
    gen_pc = "returned" =>
        /\ \A i \in 1..Len(gen_out) :
              gen_in[1] <= gen_out[i] /\ gen_out[i] <= gen_in[2]
        /\ \A i \in 1..Len(gen_out) : \A j \in 1..Len(gen_out) :
              i < j => gen_out[i] < gen_out[j]
        /\ (gen_in[1] > gen_in[2] => gen_out = <<>>)

\* a call that returned dates of three months for an anchor day after the 14th
C8_Witness ==
    /\ gen_pc = "returned"
    /\ Len(gen_out) >= 5
    /\ DayOf(gen_in[1]) > 14

\* the second day of the month that goes with anchor day a
Counterpart(a) == IF a <= 14 THEN a + 14 ELSE a - 14

\* C9: with anchor day a = min(start_date's day, 28) the generator emits
\* exactly the dates in [start_date, horizon] that fall on day a or on the
\* second day (a + 14 if a <= 14, otherwise a - 14), and nothing else.
C9_GenExactDays ==
    gen_pc = "returned" =>
        LET a == Min(DayOf(gen_in[1]), 28)
        IN  SeqToSet(gen_out) =
               {d \in gen_in[1]..gen_in[2] : DayOf(d) \in {a, Counterpart(a)}}

\* a start on the 29th to the 31st with the horizon on the 14th of the
\* next month: the uncapped day decides the second day of the month
C9_Witness ==
    /\ gen_pc = "returned"
    /\ DayOf(gen_in[1]) = 31
    /\ Len(gen_out) >= 2

\* the dates of a list of forecasts
DatesOf(forecasts) == [i \in 1..Len(forecasts) |-> forecasts[i].date]

\* a template that passes the eligibility filters of the projection
Eligible(sched) ==
    /\ ~sched.deleted
    /\ sched.frequency # "never"
    /\ ~Contains(FORECAST_PREFIX, OrEmpty(sched.payee_name))
    /\ sched.subtransactions = <<>>
    /\ \E i \in 1..Len(OrEmpty(sched.memo)) : OrEmpty(sched.memo)[i] # " "

\* the frequency offsets of the glossary, as (months, days)
GlossaryOffset ==
    [daily |-> <<0, 1>>, weekly |-> <<0, 7>>, everyOtherWeek |-> <<0, 14>>,
     every4Weeks |-> <<0, 28>>, monthly |-> <<1, 0>>, everyOtherMonth |-> <<2, 0>>,
     every3Months |-> <<3, 0>>, every4Months |-> <<4, 0>>, twiceAYear |-> <<6, 0>>,
     yearly |-> <<12, 0>>, everyOtherYear |-> <<24, 0>>]

Advance(dt, frequency) ==
    AddDelta(dt, Delta(GlossaryOffset[frequency][1], GlossaryOffset[frequency][2]))

\* the projection loop has handled the one template of the budget
Projected1 == pc = "project" /\ Len(all_scheduled) = 1 /\ k = 2

\* C3: for an eligible template with a regular frequency the emitted dates
\* are next_occurrence + step, then each previous date + step, as long as
\* the date does not exceed the horizon: the next-occurrence date is never
\* emitted, no date is after the horizon, no in-horizon step is left out.
C3_RegularWalk ==
    (/\ Projected1
     /\ Eligible(all_scheduled[1])
     /\ all_scheduled[1].frequency \in DOMAIN GlossaryOffset) =>
        LET sched == all_scheduled[1]
            D     == DatesOf(desired_forecasts)
            Prev(i) == IF i = 1 THEN sched.date_next ELSE D[i - 1]
            last  == IF D = <<>> THEN sched.date_next ELSE D[Len(D)]
        IN  /\ \A i \in 1..Len(D) :
                  /\ D[i] = Advance(Prev(i), sched.frequency)
                  /\ D[i] <= HorizonOf(today)
                  /\ D[i] # sched.date_next
            /\ Advance(last, sched.frequency) > HorizonOf(today)

\* a monthly template whose walk ends exactly on the horizon
C3_Witness ==
    /\ Projected1
    /\ all_scheduled[1].frequency = "monthly"
    /\ Len(desired_forecasts) >= 2
    /\ desired_forecasts[Len(desired_forecasts)].date = HorizonOf(today)

\* C7: for a twice-monthly template every emitted date falls on the anchor
\* day (the day-of-month of the template's next-occurrence date, capped at
\* 28) or on the anchor's 14-day counterpart, is strictly after the
\* next-occurrence date and is not after the horizon.
C7_TwiceMonthlyAnchor ==
    (/\ Projected1
     /\ Eligible(all_scheduled[1])
     /\ all_scheduled[1].frequency = "twiceAMonth") =>
        LET sched == all_scheduled[1]
            a     == Min(DayOf(sched.date_next), 28)
        IN  \A i \in 1..Len(desired_forecasts) :
               LET d == desired_forecasts[i].date
               IN  /\ DayOf(d) \in {a, Counterpart(a)}
                   /\ d > sched.date_next
                   /\ d <= HorizonOf(today)

\* a twice-monthly template due on the 27th, projected past two month ends
C7_Witness ==
    /\ Projected1
    /\ all_scheduled[1].frequency = "twiceAMonth"
    /\ DayOf(all_scheduled[1].date_next) = 27
    /\ Len(desired_forecasts) >= 4

\* the identity of a record: (date, payee, amount)
Identity(dt, payee, amount) == <<dt, payee, amount>>
CandidateIds(forecasts) ==
    {Identity(forecasts[i].date, forecasts[i].payee_name, forecasts[i].amount) :
        i \in 1..Len(forecasts)}
RecordId(e) == Identity(e.date_next, e.payee_name, e.amount)

\* the fetched records that are materialized forecasts: not deleted,
\* one-time, marked in the payee or in the memo
FetchedForecasts ==
    {e \in SeqToSet(all_scheduled) :
        ~e.deleted /\ e.frequency = "never" /\ IsForecast(e)}

\* the delta of this invocation has been computed
Reconciled == pc \in {"delete", "create"} \/ (pc = "done" /\ exit_code = 0)

\* C1: after an invocation in which the fetch and every delete and create
\* succeeded, the next invocation over the same templates and the same day
\* computes an empty to_create and an empty to_delete.
C1_SecondRunEmpty ==
    (prev_clean /\ Reconciled) => (to_create = <<>> /\ to_delete = <<>>)

\* C2: to_delete holds exactly the existing forecast records whose identity
\* no candidate has, to_create exactly the candidate identities that no
\* existing forecast has; a shared identity produces no operation.
C2_DeltaIsSetDifference ==
    Reconciled =>
        /\ SeqToSet(to_delete) =
              {e \in FetchedForecasts : RecordId(e) \notin CandidateIds(desired_forecasts)}
        /\ CandidateIds(to_create) =
              CandidateIds(desired_forecasts) \ {RecordId(e) : e \in FetchedForecasts}

\* a frequency the projection knows
Recognized(frequency) == frequency \in DOMAIN GlossaryOffset \cup {"twiceAMonth"}

\* C4: the projection emits no candidate for a template that is
\* soft-deleted, one-time, forecast-marked, split, without a memo or of an
\* unrecognized frequency: a pass of the loop that emits handles a template
\* that passes all of these filters.
C4_FilteredEmitNothing ==
    [][(pc = "project" /\ k <= Len(all_scheduled)
        /\ ~(Eligible(all_scheduled[k]) /\ Recognized(all_scheduled[k].frequency)))
       => desired_forecasts' = desired_forecasts]_vars

\* a weekly template with a blank memo, due inside the horizon, has been
\* passed over
C4_Witness ==
    /\ Projected1
    /\ all_scheduled[1].memo = <<" ", " ">>
    /\ all_scheduled[1].frequency = "weekly"
    /\ all_scheduled[1].date_next + 7 <= HorizonOf(today)
    /\ desired_forecasts = <<>>

\* the step sends a delete request
SendsDelete == last_call' # last_call /\ last_call'.op = "delete"

\* C5: every delete call targets a fetched record that is not deleted,
\* one-time, identified as a forecast and whose identity no candidate has;
\* no recurring template is deleted or modified, and the only change to a
\* record of the service is the deletion the call asked for.
C5_DeleteOnlyStaleForecasts ==
    [][/\ SendsDelete =>
            \E e \in FetchedForecasts :
               /\ e.id = last_call'.id
               /\ RecordId(e) \notin CandidateIds(desired_forecasts)
       /\ Len(server') >= Len(server)
       /\ \A i \in 1..Len(server) :
             server'[i] # server[i] =>
                /\ SendsDelete
                /\ server[i].id = last_call'.id
                /\ server[i].frequency = "never"
                /\ server'[i] = [server[i] EXCEPT !.deleted = TRUE]]_vars

\* a stale forecast has been deleted while the forecast that matches a
\* candidate stayed
C5_Witness ==
    /\ pc = "create"
    /\ deleted_forecast_count = 1
    /\ \E i \in 1..Len(server) :
          /\ server[i].frequency = "never" /\ ~server[i].deleted
          /\ RecordId(server[i]) \in CandidateIds(desired_forecasts)

\* C6: no two items of to_create carry the same identity, and no create
\* call is sent for an identity that a fetched forecast already has.
C6_NoDuplicateCreate ==
    LET fetched == {RecordId(e) : e \in FetchedForecasts}
    IN  /\ \A i \in 1..Len(to_create) : \A j \in 1..Len(to_create) :
              i # j => CandidateIds(<<to_create[i]>>) # CandidateIds(<<to_create[j]>>)
        /\ \A i \in 1..Len(to_create) :
              CandidateIds(<<to_create[i]>>) \cap fetched = {}
        /\ last_call.op = "create" =>
              Identity(last_call.body.date, last_call.body.payee_name,
                       last_call.body.amount) \notin fetched

\* two templates projected onto the same identity, one forecast of that
\* identity created
C6_Witness ==
    /\ pc = "done"
    /\ created_count = 1
    /\ Len(desired_forecasts) = 2
    /\ Cardinality(CandidateIds(desired_forecasts)) = 1

\* C10: when a call still answers 429 after the last retry, be it the
\* fetch, a delete or a create, the invocation aborts with a non-zero exit
\* and sends no further write.
C10_AbortOnExhausted ==
    exhausted # "none" => (pc = "done" /\ exit_code # 0)

(***************************************************************************)
(* The write phases, read off the trace of requests and sleeps             *)
(***************************************************************************)
\* the positions of the trace that hold a request of kind op
CallsOf(op) ==
    {i \in DOMAIN trace : trace[i].ev = "call" /\ trace[i].op = op}

WriteCalls == CallsOf("delete") \cup CallsOf("create")

\* the items of a write list that a request went out for
Attempted(op) == {trace[i].item : i \in CallsOf(op)}

\* the request at position i is the last attempt of its call: nothing waits
\* for the rate limit after it
LastAttempt(i) ==
    ~(i < Len(trace) /\ trace[i + 1] = Sleep("RATE_LIMIT_RETRY_SECONDS"))

\* the call whose last attempt is at position i ended in that kind of failure
EndedIn(i, outcome) == trace[i].outcome = outcome /\ LastAttempt(i)

DeleteLoopOver == ~dry_run /\ (pc = "create" \/ (pc = "done" /\ exit_code = 0))
CreateLoopOver == ~dry_run /\ pc = "done" /\ exit_code = 0

\* C11: a delete or create that fails with an error other than the rate
\* limit does not end its loop: once the loop is over, every later item of
\* the list has been attempted (in the create loop: every later item up to
\* one whose create ended in a rate-limit error); and after a create that
\* ended in a rate-limit error no further create is sent in that run.
C11_FailureIsolation ==
    LET deletes == CallsOf("delete")
        creates == CallsOf("create")
        deleted == Attempted("delete")
        created == Attempted("create")
    IN  /\ \A i \in deletes :
              (EndedIn(i, "error") /\ DeleteLoopOver)
                 => (trace[i].item + 1)..Len(to_delete) \subseteq deleted
        /\ \A i \in creates :
              (EndedIn(i, "error") /\ CreateLoopOver)
                 => \A j \in (trace[i].item + 1)..Len(to_create) :
                       \/ j \in created
                       \/ \E s \in creates :
                             /\ EndedIn(s, "429")
                             /\ trace[s].item > trace[i].item
                             /\ trace[s].item < j
        /\ \A i \in creates :
              EndedIn(i, "429") => \A j \in creates : j <= i

\* the first create of a list of several ends in a rate-limit error after
\* three attempts and the other items are never sent
C11_Witness ==
    /\ CreateLoopOver
    /\ Len(to_create) >= 2
    /\ \E s \in CallsOf("create") :
          EndedIn(s, "429") /\ trace[s].item = 1 /\ trace[s].attempt = 2
    /\ Attempted("create") = {1}

\* C12: between any two write requests of one invocation (retries
\* included) the process sleeps at least once, whatever the earlier
\* request was answered with.
C12_PacedWrites ==
    \A i \in WriteCalls : \A j \in WriteCalls :
       i < j => \E m \in (i + 1)..(j - 1) : trace[m].ev = "sleep"

\* the fetch of this invocation failed: its last attempt was answered with
\* an error
FetchFailed ==
    \E f \in CallsOf("fetch") : EndedIn(f, "error") \/ EndedIn(f, "429")

\* C13: with YNAB_TOKEN or BUDGET_ID missing no request is sent; a write
\* request is sent only after a fetch that succeeded, and a failed fetch ends
\* the invocation with a non-zero exit code; every delete request precedes
\* every create request.
C13_RunOrdering ==
    LET fetches == CallsOf("fetch")
        deletes == CallsOf("delete")
        creates == CallsOf("create")
    IN  /\ (~environ.YNAB_TOKEN \/ ~environ.BUDGET_ID) => trace = <<>>
        /\ \A w \in deletes \cup creates :
              \E f \in fetches : f < w /\ trace[f].outcome = "ok"
        /\ FetchFailed =>
              (deletes \cup creates = {} /\ pc = "done" /\ exit_code # 0)
        /\ \A d \in deletes : \A c \in creates : d < c

\* a fetch that went through on its second attempt, then deletes, then
\* creates
C13_Witness ==
    /\ pc = "done"
    /\ \E f \in CallsOf("fetch") : trace[f].outcome = "429"
    /\ CallsOf("delete") # {}
    /\ CallsOf("create") # {}

\* the fetched templates a create request can stem from: eligible, with the
\* request's amount and the payee made of the marker and their memo
SourcesOf(body) ==
    {t \in SeqToSet(all_scheduled) :
        /\ Eligible(t)
        /\ t.amount = body.amount
        /\ body.payee_name = FORECAST_PREFIX \o <<" ">> \o Strip(t.memo)}

\* C14: the create request made for a template with a positive amount
\* carries no category, whatever category the template has; for an amount
\* that is zero or negative it carries the category of the template.
C14_InflowCategory ==
    last_call.op = "create" =>
        /\ SourcesOf(last_call.body) # {}
        /\ \E t \in SourcesOf(last_call.body) :
              last_call.body.category_id =
                 (IF t.amount > 0 THEN NoneId ELSE t.category_id)

\* the create of an inflow whose template has a category went through,
\* after the create of a zero-amount forecast that kept its category
C14_Witness ==
    /\ last_call.op = "create"
    /\ last_call.outcome = "ok"
    /\ last_call.body.amount > 0
    /\ last_call.body.category_id = NoneId
    /\ \A t \in SourcesOf(last_call.body) : t.category_id # NoneId
    /\ \E i \in 1..Len(server) :
          /\ server[i].id > Len(Pool)
          /\ server[i].amount = 0
          /\ server[i].category_id # NoneId

\* the records of the service that this program created
CreatedByTool == {e \in SeqToSet(server) : e.id > Len(Pool)}

\* C15: every record the program creates is one-time and has the forecast
\* marker in its payee, and in no invocation does the projection emit a
\* candidate for a record the program created.
C15_NoForecastOfForecast ==
    [][/\ \A e \in CreatedByTool' :
             e.frequency = "never" /\ Contains(FORECAST_PREFIX, e.payee_name)
       /\ (pc = "project" /\ k <= Len(all_scheduled)
           /\ all_scheduled[k].id > Len(Pool))
             => desired_forecasts' = desired_forecasts]_vars

\* the projection of the second invocation has passed over a record that
\* the first invocation created
C15_Witness ==
    /\ run_no = 2
    /\ pc = "project"
    /\ k > 1
    /\ all_scheduled[k - 1].id > Len(Pool)
    /\ ~all_scheduled[k - 1].deleted

\* C16: a dry run sends its fetch and no delete or create request, leaves
\* both counters at 0 and the records of the service as fetched; a normal
\* run that follows a dry run over the same records computes the same
\* candidates, the same to_delete and the same to_create as the dry run did.
C16_DryRunChangesNothing ==
    /\ dry_run =>
          /\ WriteCalls = {}
          /\ deleted_forecast_count = 0
          /\ created_count = 0
          /\ Reconciled => (CallsOf("fetch") # {} /\ server = all_scheduled)
    /\ (prev_delta.dry /\ ~dry_run /\ Reconciled) =>
          /\ all_scheduled = prev_delta.all_scheduled
          /\ desired_forecasts = prev_delta.desired_forecasts
          /\ to_delete = prev_delta.to_delete
          /\ to_create = prev_delta.to_create

\* a normal run after a dry run, both with something to delete and
\* something to create
C16_Witness ==
    /\ prev_delta.dry
    /\ ~dry_run
    /\ pc = "create"
    /\ prev_delta.to_delete # <<>>
    /\ prev_delta.to_create # <<>>
    /\ deleted_forecast_count > 0

\* a template that is not soft-deleted, not one-time and not forecast-marked
\* and has sub-entries
SplitTemplate(sched) ==
    /\ ~sched.deleted
    /\ sched.frequency # "never"
    /\ ~Contains(FORECAST_PREFIX, OrEmpty(sched.payee_name))
    /\ sched.subtransactions # <<>>

\* C17: a pass of the projection loop over a template that passes the
\* soft-deleted, one-time and marker filters and has sub-entries emits no
\* candidate and adds exactly one to skipped_splits; a pass over any other
\* template leaves the count alone; so the count is always the number of
\* such templates among those handled so far.
C17_SplitsCounted ==
    [][/\ (pc = "project" /\ k <= Len(all_scheduled)) =>
             IF SplitTemplate(all_scheduled[k])
             THEN /\ desired_forecasts' = desired_forecasts
                  /\ skipped_splits' = skipped_splits + 1
             ELSE skipped_splits' = skipped_splits
       /\ (pc' \in {"project", "delete", "create"}) =>
             skipped_splits' =
                Cardinality({i \in 1..(k' - 1) : SplitTemplate(all_scheduled'[i])})
      ]_vars

\* the projection is over a budget with two split templates and a
\* soft-deleted one with sub-entries: two are counted
C17_Witness ==
    /\ pc = "project"
    /\ k > Len(all_scheduled)
    /\ skipped_splits = 2
    /\ \E i \in 1..Len(all_scheduled) :
          all_scheduled[i].deleted /\ all_scheduled[i].subtransactions # <<>>

\* the positions of the trace that hold a request
AllCalls == {i \in DOMAIN trace : trace[i].ev = "call"}

\* the requests at positions i and j are attempts of the same call
SameCall(i, j) == trace[i].op = trace[j].op /\ trace[i].item = trace[j].item

\* C18: a call through api_call_with_retry is attempted at most 3 times; an
\* attempt after the first follows a 429 answer to the attempt before it and
\* the retry wait, and such a 429 is always followed by the wait; after an
\* answer other than 429, or the third attempt, no further attempt of that
\* call is made; each request answered ok counts as done at once.
C18_BoundedRetry ==
    /\ \A i \in DOMAIN trace : trace[i].ev = "call" =>
          /\ trace[i].attempt < 3
          /\ trace[i].attempt > 0 =>
                /\ i > 2
                /\ trace[i - 1] = Sleep("RATE_LIMIT_RETRY_SECONDS")
                /\ trace[i - 2].ev = "call"
                /\ SameCall(i - 2, i)
                /\ trace[i - 2].outcome = "429"
                /\ trace[i - 2].attempt = trace[i].attempt - 1
          /\ (trace[i].outcome = "429" /\ trace[i].attempt < 2) =>
                /\ i < Len(trace)
                /\ trace[i + 1] = Sleep("RATE_LIMIT_RETRY_SECONDS")
                /\ (i + 2 <= Len(trace)) =>
                      /\ trace[i + 2].ev = "call"
                      /\ SameCall(i, i + 2)
          /\ (trace[i].outcome # "429" \/ trace[i].attempt = 2) =>
                \A j \in (i + 1)..Len(trace) :
                   trace[j].ev = "call" => ~SameCall(i, j)
    /\ deleted_forecast_count =
          Cardinality({i \in CallsOf("delete") : trace[i].outcome = "ok"})
    /\ created_count =
          Cardinality({i \in CallsOf("create") : trace[i].outcome = "ok"})
    /\ (\E i \in CallsOf("fetch") : trace[i].outcome = "ok") <=>
          (pc \in {"project", "delete", "create"} \/ (pc = "done" /\ exit_code = 0))

\* a call went through on its third attempt after two 429 answers, and
\* another call was given up at its first attempt on an error
C18_Witness ==
    /\ \E i \in AllCalls : trace[i].attempt = 2 /\ trace[i].outcome = "ok"
    /\ \E i \in AllCalls :
          /\ trace[i].attempt = 0
          /\ trace[i].outcome = "error"
          /\ \E j \in AllCalls : j > i

\* C19: for a frequency whose offset is in months or years the k-th emitted
\* date is the next-occurrence date advanced by k offsets in one go, for
\* every next-occurrence date, days 29 to 31 included.
C19_NoDrift ==
    (/\ Projected1
     /\ Eligible(all_scheduled[1])
     /\ all_scheduled[1].frequency \in DOMAIN GlossaryOffset
     /\ GlossaryOffset[all_scheduled[1].frequency][1] > 0) =>
        LET sched  == all_scheduled[1]
            months == GlossaryOffset[sched.frequency][1]
            D      == DatesOf(desired_forecasts)
        IN  \A i \in 1..Len(D) :
               D[i] = AddDelta(sched.date_next, Delta(i * months, 0))

\* the positions of desired_forecasts whose identity a fetched forecast has
Matched ==
    {i \in 1..Len(desired_forecasts) :
        Identity(desired_forecasts[i].date, desired_forecasts[i].payee_name,
                 desired_forecasts[i].amount)
           \in {RecordId(e) : e \in FetchedForecasts}}

\* C20: to_create has one item for each emitted candidate whose identity no
\* fetched forecast has, and the unchanged count is the number of emitted
\* candidates whose identity a fetched forecast has, also when two
\* templates emit candidates with the same identity.
C20_OneForOne ==
    Reconciled =>
        /\ Len(to_create) = Len(desired_forecasts) - Cardinality(Matched)
        /\ unchanged = Cardinality(Matched)
====
